---- MODULE Spec2Model ----
(***************************************************************************)
(* Model of VulkanTesting/main.cpp: HelloTriangleApplication::run, i.e.    *)
(* initWindow, initVulkan (createInstance, setupDebugMessenger,            *)
(* pickPhysicalDevice, createLogicalDevice), mainLoop, cleanup, and the    *)
(* try/catch of main.  The windowing library and the graphics driver are   *)
(* the environment: what they enumerate and what their calls return is     *)
(* drawn from small sets.  Output to std::cout is informational only and   *)
(* is not modelled (this includes the extension print loop of lines        *)
(* 224-236); output to std::cerr is.                                       *)
(***************************************************************************)
EXTENDS Integers, Sequences, FiniteSets

VARIABLES
    enableValidationLayers, \* build mode: FALSE under NDEBUG (lines 17-21)
    availableLayers,        \* layers the driver enumerates (local of checkValidationLayerSupport)
    debugUtilsLoaded,       \* whether vkGetInstanceProcAddr resolves the debug-utils entry points
    devices,                \* physical devices the driver enumerates; handle k is devices[k]
    pc,                     \* position of the single thread of control
    calls,                  \* member functions entered so far, in order
    acquired,               \* resources acquired so far
    teardown,               \* release steps executed so far, in order
    physicalDevice,         \* member physicalDevice (line 67)
    score,                  \* local score of pickPhysicalDevice (line 127)
    i,                      \* position of the range-for of pickPhysicalDevice (line 128)
    indices,                \* local indices of createLogicalDevice (line 86)
    device,                 \* logical device handles created: the create infos passed
    graphicsQueue,          \* queue handles retrieved: the (family, index) asked for
    shouldClose,            \* the window's close flag
    thrown,                 \* what() of the exception in flight or caught
    stderr,                 \* lines written to std::cerr
    exitCode,               \* {} while running, {code} once main returned
    caught                  \* number of times the catch block of main ran

vars == << enableValidationLayers, availableLayers, debugUtilsLoaded, devices, pc,
           calls, acquired, teardown, physicalDevice, score, i, indices, device,
           graphicsQueue, shouldClose, thrown, stderr, exitCode, caught >>

(***************************************************************************)
(* Bounds of the model.                                                    *)
(***************************************************************************)
MaxDevices == 2

MaxLayers == 2

MaxFamilies == 3

(***************************************************************************)
(* Program constants.                                                      *)
(***************************************************************************)
VK_NULL_HANDLE == 0

VK_QUEUE_GRAPHICS_BIT == 1

EXIT_SUCCESS == 0

EXIT_FAILURE == 1

validationLayers == << "VK_LAYER_KHRONOS_validation" >>

NoError == "none"

ErrLayers == "Validation layers requested, but not available!"

ErrInstance == "Failed to create instance."

ErrExtension == "VK_ERROR_EXTENSION_NOT_PRESENT"

ErrMessenger == "failed to set up debug messenger!"

ErrNoGPUs == "Failed to find GPUs with Vulkan support! Get a better computer LOSER!!!"

ErrNoSuitableGPU == "failed to find a suitable GPU!"

ErrDevice == "failed to create logical device!"

(***************************************************************************)
(* Environment: what the driver can answer.                                *)
(***************************************************************************)
VkResults == { "VK_SUCCESS", "VK_ERROR_INITIALIZATION_FAILED" }

LayerNames == { "VK_LAYER_KHRONOS_validation", "VK_LAYER_LUNARG_api_dump" }

\* Sequences over S of length at most n.
SeqsUpTo(S, n) == UNION { [1..k -> S] : k \in 0..n }

\* queueFlags values: graphics only, compute only, graphics and compute.
QueueFlagValues == { 1, 2, 3 }

QueueCounts == { 0, 1 }

VkQueueFamilyProperties == [ queueCount : QueueCounts, queueFlags : QueueFlagValues ]

ImageDimensions == { 0, 1 }

Graphics == [ queueCount |-> 1, queueFlags |-> 1 ]

Compute == [ queueCount |-> 1, queueFlags |-> 2 ]

\* Queue family lists of the devices of the end-to-end specification.
DriverFamilyLists == { << >>, << Compute >>, << Graphics >>, << Compute, Graphics >> }

PhysicalDevices ==
    [ maxImageDimension2D : ImageDimensions,
      maxImageDimension3D : ImageDimensions,
      queueFamilies : DriverFamilyLists ]

(***************************************************************************)
(* Pure functions.                                                         *)
(***************************************************************************)
\* std::strcmp: zero exactly when the two strings are equal (only its
\* truthiness is read by the program).
strcmp(a, b) == IF a = b THEN 0 ELSE 1

\* flags & bit, for a single-bit mask.
BitAnd(flags, bit) == IF (flags \div bit) % 2 = 1 THEN bit ELSE 0

\* The condition of line 153.
IsGraphicsFamily(queueFamily) ==
    /\ queueFamily.queueCount > 0
    /\ BitAnd(queueFamily.queueFlags, VK_QUEUE_GRAPHICS_BIT) # 0

RECURSIVE FindLoopNoBreak(_, _, _)
FindLoopNoBreak(queueFamilies, n, ind) ==
    IF n >= Len(queueFamilies) THEN ind
    ELSE FindLoopNoBreak(queueFamilies, n + 1,
            IF IsGraphicsFamily(queueFamilies[n + 1])
            THEN [ indexFound |-> TRUE, graphicsFamily |-> n ]
            ELSE ind)

\* The range-for of lines 151-163: n is the counter i, ind is indices.
RECURSIVE FindLoop(_, _, _)
FindLoop(queueFamilies, n, ind) ==
    IF n >= Len(queueFamilies) THEN ind
    ELSE LET assigned == IF IsGraphicsFamily(queueFamilies[n + 1])
                         THEN [ indexFound |-> TRUE, graphicsFamily |-> n ]
                         ELSE ind
         IN  IF assigned.indexFound THEN assigned
             ELSE FindLoop(queueFamilies, n + 1, assigned)

findQueueFamilies(dev) ==
    FindLoop(devices[dev].queueFamilies, 0, [ indexFound |-> FALSE, graphicsFamily |-> 0 ])

deviceScoreNoSentinel(dev) ==
    devices[dev].maxImageDimension2D + devices[dev].maxImageDimension3D

deviceScore(dev) ==
    LET limits == devices[dev].maxImageDimension2D + devices[dev].maxImageDimension3D
    IN  IF ~ findQueueFamilies(dev).indexFound THEN -1 ELSE limits

BetterOrEqual(devScore, best) == devScore >= best

BetterAlways(devScore, best) == TRUE

\* The comparison of line 130.
Better(devScore, best) == devScore > best

NeverNoDevices(deviceCount) == FALSE

\* The test of line 121.
NoDevices(deviceCount) == deviceCount = 0

\* The inner loop of lines 271-276.
isPresent(requestedLayer, layers) ==
    \E n \in 1..Len(layers) : strcmp(layers[n], requestedLayer) # 0

checkValidationLayerSupport(layers) ==
    \A r \in 1..Len(validationLayers) : isPresent(validationLayers[r], layers)

(***************************************************************************)
(* Initial state: the application object is constructed, the environment   *)
(* is fixed.                                                               *)
(***************************************************************************)
Init ==
    /\ enableValidationLayers \in BOOLEAN
    /\ debugUtilsLoaded \in BOOLEAN
    /\ devices \in SeqsUpTo(PhysicalDevices, MaxDevices)
    /\ availableLayers = << >>
    /\ pc = "initWindow"
    /\ calls = << >>
    /\ acquired = { }
    /\ teardown = << >>
    /\ physicalDevice = VK_NULL_HANDLE
    /\ score = 0
    /\ i = 0
    /\ indices = [ indexFound |-> FALSE, graphicsFamily |-> 0 ]
    /\ device = << >>
    /\ graphicsQueue = << >>
    /\ shouldClose = FALSE
    /\ thrown = NoError
    /\ stderr = << >>
    /\ exitCode = { }
    /\ caught = 0

env == << enableValidationLayers, debugUtilsLoaded, devices >>

\* throw std::runtime_error(msg): control passes to the catch block of main.
Throw(msg) == pc' = "catch" /\ thrown' = msg

\* Normal transfer of control.
Goto(next) == pc' = next /\ thrown' = thrown

(***************************************************************************)
(* initWindow and initVulkan.                                              *)
(***************************************************************************)
initWindow ==
    /\ pc = "initWindow"
    /\ calls' = Append(calls, "initWindow")
    /\ acquired' = acquired \cup { "glfw", "window" }
    /\ Goto("createInstance")
    /\ UNCHANGED << env, availableLayers, teardown, physicalDevice, score, i, indices,
                    device, graphicsQueue, shouldClose, stderr, exitCode, caught >>

\* createInstance up to the layer check (lines 194-245).
createInstanceCheckLayers ==
    /\ pc = "createInstance"
    /\ calls' = Append(calls, "createInstance")
    /\ IF enableValidationLayers
       THEN \E layers \in SeqsUpTo(LayerNames, MaxLayers) :
               /\ availableLayers' = layers
               /\ IF ~ checkValidationLayerSupport(layers)
                  THEN Throw(ErrLayers)
                  ELSE Goto("vkCreateInstance")
       ELSE availableLayers' = availableLayers /\ Goto("vkCreateInstance")
    /\ UNCHANGED << env, acquired, teardown, physicalDevice, score, i, indices,
                    device, graphicsQueue, shouldClose, stderr, exitCode, caught >>

\* The rest of createInstance (lines 247-258).
createInstance ==
    /\ pc = "vkCreateInstance"
    /\ availableLayers' = << >>
    /\ \E result \in VkResults :
          IF result # "VK_SUCCESS"
          THEN Throw(ErrInstance) /\ acquired' = acquired
          ELSE Goto("setupDebugMessenger") /\ acquired' = acquired \cup { "instance" }
    /\ UNCHANGED << env, calls, teardown, physicalDevice, score, i, indices,
                    device, graphicsQueue, shouldClose, stderr, exitCode, caught >>

setupDebugMessenger ==
    /\ pc = "setupDebugMessenger"
    /\ calls' = Append(calls, "setupDebugMessenger")
    /\ IF ~ enableValidationLayers
       THEN Goto("pickPhysicalDevice") /\ acquired' = acquired
       ELSE IF ~ debugUtilsLoaded
       THEN Throw(ErrExtension) /\ acquired' = acquired
       ELSE \E result \in VkResults :
               IF result # "VK_SUCCESS"
               THEN Throw(ErrMessenger) /\ acquired' = acquired
               ELSE Goto("pickPhysicalDevice") /\ acquired' = acquired \cup { "messenger" }
    /\ UNCHANGED << env, availableLayers, teardown, physicalDevice, score, i, indices,
                    device, graphicsQueue, shouldClose, stderr, exitCode, caught >>

\* pickPhysicalDevice up to the loop (lines 118-127).
pickPhysicalDevice ==
    /\ pc = "pickPhysicalDevice"
    /\ calls' = Append(calls, "pickPhysicalDevice")
    /\ IF NoDevices(Len(devices))
       THEN Throw(ErrNoGPUs) /\ UNCHANGED << score, i >>
       ELSE Goto("pickLoop") /\ score' = 0 /\ i' = 1
    /\ UNCHANGED << env, availableLayers, acquired, teardown, physicalDevice, indices,
                    device, graphicsQueue, shouldClose, stderr, exitCode, caught >>

\* One iteration of the loop of lines 128-134.
pickLoopStep ==
    /\ pc = "pickLoop"
    /\ i <= Len(devices)
    /\ LET devScore == deviceScore(i)
       IN  IF Better(devScore, score)
           THEN physicalDevice' = i /\ score' = devScore
           ELSE UNCHANGED << physicalDevice, score >>
    /\ i' = i + 1
    /\ UNCHANGED << env, availableLayers, pc, calls, acquired, teardown, indices, device,
                    graphicsQueue, shouldClose, thrown, stderr, exitCode, caught >>

\* After the loop (lines 136-142).
pickFinish ==
    /\ pc = "pickLoop"
    /\ i > Len(devices)
    /\ IF physicalDevice = VK_NULL_HANDLE
       THEN Throw(ErrNoSuitableGPU)
       ELSE Goto("createLogicalDevice")
    /\ UNCHANGED << env, availableLayers, calls, acquired, teardown, physicalDevice, score,
                    i, indices, device, graphicsQueue, shouldClose, stderr, exitCode,
                    caught >>

createLogicalDevice ==
    /\ pc = "createLogicalDevice"
    /\ calls' = Append(calls, "createLogicalDevice")
    /\ indices' = findQueueFamilies(physicalDevice)
    /\ \E result \in VkResults :
          IF result # "VK_SUCCESS"
          THEN /\ Throw(ErrDevice)
               /\ UNCHANGED << acquired, device, graphicsQueue >>
          ELSE /\ device' = Append(device,
                      [ physicalDevice |-> physicalDevice,
                        queueFamilyIndex |-> indices'.graphicsFamily,
                        queueCount |-> 1 ])
               /\ graphicsQueue' = Append(graphicsQueue,
                      [ queueFamilyIndex |-> indices'.graphicsFamily, queueIndex |-> 0 ])
               /\ acquired' = acquired \cup { "device" }
               /\ Goto("mainLoop")
    /\ UNCHANGED << env, availableLayers, teardown, physicalDevice, score, i,
                    shouldClose, stderr, exitCode, caught >>

(***************************************************************************)
(* mainLoop.                                                               *)
(***************************************************************************)
mainLoop ==
    /\ pc = "mainLoop"
    /\ calls' = Append(calls, "mainLoop")
    /\ Goto("mainLoopTest")
    /\ UNCHANGED << env, availableLayers, acquired, teardown, physicalDevice, score, i,
                    indices, device, graphicsQueue, shouldClose, stderr, exitCode, caught >>

\* The loop body (line 331): processing events may set the close flag.
pollEvents ==
    /\ pc = "mainLoopTest"
    /\ ~ shouldClose
    /\ shouldClose' \in BOOLEAN
    /\ UNCHANGED << env, availableLayers, pc, calls, acquired, teardown, physicalDevice,
                    score, i, indices, device, graphicsQueue, thrown, stderr, exitCode,
                    caught >>

\* The loop test of line 330 finds the close flag set.
mainLoopExit ==
    /\ pc = "mainLoopTest"
    /\ shouldClose
    /\ Goto("cleanup")
    /\ UNCHANGED << env, availableLayers, calls, acquired, teardown, physicalDevice, score,
                    i, indices, device, graphicsQueue, shouldClose, stderr, exitCode,
                    caught >>

(***************************************************************************)
(* cleanup, one action per call.                                           *)
(***************************************************************************)
Release(step, next) ==
    /\ teardown' = Append(teardown, step)
    /\ Goto(next)

cleanupDestroyDevice ==
    /\ pc = "cleanup"
    /\ calls' = Append(calls, "cleanup")
    /\ Release("vkDestroyDevice", "cleanupMessenger")
    /\ UNCHANGED << env, availableLayers, acquired, physicalDevice, score, i, indices,
                    device, graphicsQueue, shouldClose, stderr, exitCode, caught >>

\* callVKfx for vkDestroyDebugUtilsMessengerEXT (line 338 with lines 29-37).
\* Under NDEBUG debugMessenger was never written: calling the resolved entry
\* point with it either returns or brings the process down.
cleanupDestroyMessenger ==
    /\ pc = "cleanupMessenger"
    /\ IF ~ debugUtilsLoaded
       THEN Throw(ErrExtension) /\ teardown' = teardown
       ELSE IF enableValidationLayers
       THEN Release("vkDestroyDebugUtilsMessengerEXT", "cleanupInstance")
       ELSE \/ Release("vkDestroyDebugUtilsMessengerEXT", "cleanupInstance")
            \/ pc' = "crashed" /\ UNCHANGED << teardown, thrown >>
    /\ UNCHANGED << env, availableLayers, calls, acquired, physicalDevice, score, i,
                    indices, device, graphicsQueue, shouldClose, stderr, exitCode, caught >>

cleanupDestroyInstance ==
    /\ pc = "cleanupInstance"
    /\ Release("vkDestroyInstance", "cleanupWindow")
    /\ UNCHANGED << env, availableLayers, calls, acquired, physicalDevice, score, i,
                    indices, device, graphicsQueue, shouldClose, stderr, exitCode, caught >>

cleanupDestroyWindow ==
    /\ pc = "cleanupWindow"
    /\ Release("glfwDestroyWindow", "cleanupTerminate")
    /\ UNCHANGED << env, availableLayers, calls, acquired, physicalDevice, score, i,
                    indices, device, graphicsQueue, shouldClose, stderr, exitCode, caught >>

cleanupTerminate ==
    /\ pc = "cleanupTerminate"
    /\ Release("glfwTerminate", "return")
    /\ UNCHANGED << env, availableLayers, calls, acquired, physicalDevice, score, i,
                    indices, device, graphicsQueue, shouldClose, stderr, exitCode, caught >>

(***************************************************************************)
(* main: the two ways out of the try block.                                *)
(***************************************************************************)
mainReturn ==
    /\ pc = "return"
    /\ exitCode' = { EXIT_SUCCESS }
    /\ Goto("exited")
    /\ UNCHANGED << env, availableLayers, calls, acquired, teardown, physicalDevice, score,
                    i, indices, device, graphicsQueue, shouldClose, stderr, caught >>

mainCatchAndTerminate ==
    /\ pc = "catch"
    /\ stderr' = Append(stderr, thrown)
    /\ caught' = caught + 1
    /\ teardown' = Append(teardown, "glfwTerminate")
    /\ exitCode' = { EXIT_FAILURE }
    /\ Goto("exited")
    /\ UNCHANGED << env, availableLayers, calls, acquired, physicalDevice, score,
                    i, indices, device, graphicsQueue, shouldClose >>

mainCatch ==
    /\ pc = "catch"
    /\ stderr' = Append(stderr, thrown)
    /\ caught' = caught + 1
    /\ exitCode' = { EXIT_FAILURE }
    /\ Goto("exited")
    /\ UNCHANGED << env, availableLayers, calls, acquired, teardown, physicalDevice, score,
                    i, indices, device, graphicsQueue, shouldClose >>

Next ==
    \/ initWindow
    \/ createInstanceCheckLayers
    \/ createInstance
    \/ setupDebugMessenger
    \/ pickPhysicalDevice
    \/ pickLoopStep
    \/ pickFinish
    \/ createLogicalDevice
    \/ mainLoop
    \/ pollEvents
    \/ mainLoopExit
    \/ cleanupDestroyDevice
    \/ cleanupDestroyMessenger
    \/ cleanupDestroyInstance
    \/ cleanupDestroyWindow
    \/ cleanupTerminate
    \/ mainReturn
    \/ mainCatch

Spec == Init /\ [][Next]_vars

(***************************************************************************)
(* findQueueFamilies on its own: one device whose queue family list is any *)
(* list of at most MaxFamilies families.                                   *)
(***************************************************************************)
InitFamilies ==
    /\ enableValidationLayers = FALSE
    /\ debugUtilsLoaded = FALSE
    /\ \E queueFamilies \in SeqsUpTo(VkQueueFamilyProperties, MaxFamilies) :
          devices = << [ maxImageDimension2D |-> 0,
                         maxImageDimension3D |-> 0,
                         queueFamilies |-> queueFamilies ] >>
    /\ availableLayers = << >>
    /\ pc = "findQueueFamilies"
    /\ calls = << >>
    /\ acquired = { }
    /\ teardown = << >>
    /\ physicalDevice = VK_NULL_HANDLE
    /\ score = 0
    /\ i = 0
    /\ indices = [ indexFound |-> FALSE, graphicsFamily |-> 0 ]
    /\ device = << >>
    /\ graphicsQueue = << >>
    /\ shouldClose = FALSE
    /\ thrown = NoError
    /\ stderr = << >>
    /\ exitCode = { }
    /\ caught = 0

findQueueFamiliesCall ==
    /\ pc = "findQueueFamilies"
    /\ indices' = findQueueFamilies(1)
    /\ pc' = "findQueueFamiliesDone"
    /\ UNCHANGED << env, availableLayers, calls, acquired, teardown, physicalDevice, score,
                    i, device, graphicsQueue, shouldClose, thrown, stderr, exitCode,
                    caught >>

NextFamilies == findQueueFamiliesCall

SpecFamilies == InitFamilies /\ [][NextFamilies]_vars

(***************************************************************************)
(* Vocabulary of the properties.                                           *)
(***************************************************************************)
Called(f) == \E n \in 1..Len(calls) : calls[n] = f

\* A family with at least one queue and the graphics bit set, stated
\* without the program's own test.
Qualifies(queueFamily) ==
    queueFamily.queueCount >= 1 /\ queueFamily.queueFlags \in { 1, 3 }

QualifyingFamilies(d) ==
    { n \in 1..Len(d.queueFamilies) : Qualifies(d.queueFamilies[n]) }

HasGraphicsFamily(d) == QualifyingFamilies(d) # { }

ImageScore(d) == d.maxImageDimension2D + d.maxImageDimension3D

GraphicsDevices == { k \in 1..Len(devices) : HasGraphicsFamily(devices[k]) }

\* pickPhysicalDevice has returned or thrown.
PickDone == Called("pickPhysicalDevice") /\ pc # "pickLoop"

NonZeroExit == exitCode # { } /\ EXIT_SUCCESS \notin exitCode

FullTeardown ==
    << "vkDestroyDevice", "vkDestroyDebugUtilsMessengerEXT", "vkDestroyInstance",
       "glfwDestroyWindow", "glfwTerminate" >>

\* The teardown with the messenger step skipped.
TeardownWithoutMessenger ==
    << "vkDestroyDevice", "vkDestroyInstance", "glfwDestroyWindow", "glfwTerminate" >>

IsPrefix(s, t) == Len(s) <= Len(t) /\ \A n \in 1..Len(s) : s[n] = t[n]

(***************************************************************************)
(* C1: whenever the enumerated list holds a device with a graphics-capable *)
(* queue family, pickPhysicalDevice ends without error and has selected a  *)
(* device with a graphics family whose score maxImageDimension2D +         *)
(* maxImageDimension3D is maximal among such devices.  Stated as the claim *)
(* says it; the program violates it.                                       *)
(***************************************************************************)
C1_SelectsBestGraphicsDevice ==
    (PickDone /\ GraphicsDevices # { }) =>
        /\ thrown \notin { ErrNoGPUs, ErrNoSuitableGPU }
        /\ physicalDevice \in GraphicsDevices
        /\ \A k \in GraphicsDevices :
              ImageScore(devices[k]) <= ImageScore(devices[physicalDevice])

(***************************************************************************)
(* C2: once cleanup has started it runs every teardown step in the order   *)
(* device, messenger, instance, window, windowing shutdown; when           *)
(* diagnostics are disabled and the destroy-messenger entry point is not   *)
(* available, the messenger step is skipped without an error and the rest  *)
(* is still released.  Stated as the claim says it; the program violates   *)
(* it.                                                                     *)
(***************************************************************************)
C2_CleanupRunsEveryStep ==
    (Called("cleanup") /\ (enableValidationLayers \/ ~ debugUtilsLoaded)) =>
        LET order == IF enableValidationLayers THEN FullTeardown
                     ELSE TeardownWithoutMessenger
        IN  /\ thrown = NoError
            /\ pc # "crashed"
            /\ IsPrefix(teardown, order)
            /\ (pc \in { "return", "exited" } => teardown = order)

AllRequestedLayersAvailable ==
    \A r \in 1..Len(validationLayers) :
        \E n \in 1..Len(availableLayers) : availableLayers[n] = validationLayers[r]

LayersChecked ==
    /\ enableValidationLayers
    /\ \/ pc = "vkCreateInstance"
       \/ pc = "catch" /\ thrown = ErrLayers

(***************************************************************************)
(* C3: with diagnostics enabled, createInstance throws the validation      *)
(* layer error exactly when some requested layer has no available layer of *)
(* the same name.  Stated as the claim says it; the program violates it.   *)
(***************************************************************************)
C3_LayerErrorIffMissing ==
    LayersChecked => ((thrown = ErrLayers) <=> ~ AllRequestedLayersAvailable)

(***************************************************************************)
(* C4: findQueueFamilies reports found = false when no family of the list  *)
(* has a queue and the graphics bit (in particular for the empty list),    *)
(* and otherwise found = true with the index of the first such family.     *)
(***************************************************************************)
C4_FirstQualifyingFamily ==
    pc = "findQueueFamiliesDone" =>
        LET Q == QualifyingFamilies(devices[1])
        IN  IF Q = { }
            THEN ~ indices.indexFound
            ELSE /\ indices.indexFound
                 /\ indices.graphicsFamily + 1 \in Q
                 /\ \A n \in Q : indices.graphicsFamily + 1 <= n

C4_Witness ==
    /\ pc = "findQueueFamiliesDone"
    /\ devices[1].queueFamilies =
          << [ queueCount |-> 1, queueFlags |-> 2 ],
             [ queueCount |-> 1, queueFlags |-> 3 ],
             [ queueCount |-> 1, queueFlags |-> 1 ] >>
    /\ indices = [ indexFound |-> TRUE, graphicsFamily |-> 1 ]

OneGoodDevice ==
    /\ Len(devices) = 1
    /\ HasGraphicsFamily(devices[1])
    /\ devices[1].maxImageDimension2D > 0
    /\ devices[1].maxImageDimension3D > 0

(***************************************************************************)
(* C5: with exactly one physical device that has a graphics queue family   *)
(* and nonzero image limits, and every creation call succeeding, the run   *)
(* selects that device, creates one logical device and retrieves one       *)
(* queue, releases nothing while the close flag is false, and ends with    *)
(* cleanup complete and exit code 0.  Stated as the claim says it; the     *)
(* program violates it.                                                    *)
(***************************************************************************)
C5_CleanRunExitsZero ==
    (OneGoodDevice /\ "device" \in acquired) =>
        /\ physicalDevice = 1
        /\ Len(device) = 1
        /\ Len(graphicsQueue) = 1
        /\ (~ shouldClose => teardown = << >>)
        /\ thrown = NoError
        /\ pc # "crashed"
        /\ (pc = "exited" =>
               /\ exitCode = { EXIT_SUCCESS }
               /\ teardown \in { FullTeardown, TeardownWithoutMessenger })

NoGraphicsDevice == devices # << >> /\ GraphicsDevices = { }

(***************************************************************************)
(* C6: when the list is not empty and no device has a graphics-capable     *)
(* queue family, pickPhysicalDevice selects nothing and throws the         *)
(* no-suitable-GPU error; createLogicalDevice and the event loop are never *)
(* reached and the exit code is not zero.                                  *)
(***************************************************************************)
C6_NoGraphicsDeviceIsFatal ==
    NoGraphicsDevice =>
        /\ physicalDevice = VK_NULL_HANDLE
        /\ ~ Called("createLogicalDevice")
        /\ ~ Called("mainLoop")
        /\ device = << >>
        /\ (PickDone => thrown = ErrNoSuitableGPU /\ pc \in { "catch", "exited" })
        /\ (pc = "exited" => NonZeroExit)

C6_Witness ==
    /\ NoGraphicsDevice
    /\ Len(devices) = 2
    /\ ImageScore(devices[2]) > 0
    /\ pc = "exited"
    /\ thrown = ErrNoSuitableGPU

(***************************************************************************)
(* C7: with no physical device at all, pickPhysicalDevice throws before    *)
(* any logical device is created and before the event loop; main catches   *)
(* the error once, writes its message to the error output and exits with a *)
(* code that is not zero.                                                  *)
(***************************************************************************)
C7_ZeroDevicesIsFatal ==
    devices = << >> =>
        /\ device = << >>
        /\ ~ Called("createLogicalDevice")
        /\ ~ Called("mainLoop")
        /\ caught <= 1
        /\ (Called("pickPhysicalDevice") =>
               thrown = ErrNoGPUs /\ pc \in { "catch", "exited" })
        /\ (pc = "exited" => caught = 1 /\ stderr = << thrown >> /\ NonZeroExit)

C7_Witness ==
    /\ devices = << >>
    /\ pc = "exited"
    /\ stderr = << ErrNoGPUs >>
    /\ exitCode = { EXIT_FAILURE }

InitErrors(f) ==
    CASE f = "createInstance" -> { ErrLayers, ErrInstance }
      [] f = "setupDebugMessenger" -> { ErrExtension, ErrMessenger }
      [] f = "pickPhysicalDevice" -> { ErrNoGPUs, ErrNoSuitableGPU }
      [] f = "createLogicalDevice" -> { ErrDevice }
      [] OTHER -> { }

InitFailure == thrown # NoError /\ ~ Called("cleanup")

(***************************************************************************)
(* C9: an error thrown during initialization reaches main as thrown, is    *)
(* caught once, makes the exit code non-zero, and no release step runs.    *)
(***************************************************************************)
C9_InitFailureReleasesNothing ==
    InitFailure =>
        /\ thrown \in InitErrors(calls[Len(calls)])
        /\ teardown = << >>
        /\ pc \in { "catch", "exited" }
        /\ (pc = "catch" => caught = 0 /\ stderr = << >> /\ exitCode = { })
        /\ (pc = "exited" =>
               caught = 1 /\ stderr = << thrown >> /\ exitCode = { EXIT_FAILURE })

C9_Witness ==
    /\ pc = "exited"
    /\ thrown = ErrDevice
    /\ acquired = { "glfw", "window", "instance", "messenger" }
    /\ teardown = << >>
    /\ NonZeroExit

(***************************************************************************)
(* C10: whenever createLogicalDevice runs, the selected device has a       *)
(* graphics-capable queue family, so the found flag it does not read is    *)
(* true and the index it passes to device creation and queue retrieval is  *)
(* the index of a qualifying family of that device.                        *)
(***************************************************************************)
C10_IndexAlwaysFound ==
    /\ pc = "createLogicalDevice" =>
          /\ physicalDevice # VK_NULL_HANDLE
          /\ findQueueFamilies(physicalDevice).indexFound
    /\ Called("createLogicalDevice") =>
          /\ indices.indexFound
          /\ indices.graphicsFamily + 1 \in QualifyingFamilies(devices[physicalDevice])
          /\ \A n \in 1..Len(device) :
                /\ device[n].physicalDevice = physicalDevice
                /\ device[n].queueFamilyIndex = indices.graphicsFamily
          /\ \A n \in 1..Len(graphicsQueue) :
                graphicsQueue[n].queueFamilyIndex = indices.graphicsFamily

C10_Witness ==
    /\ Called("createLogicalDevice")
    /\ Len(devices) = 2
    /\ ~ HasGraphicsFamily(devices[2])
    /\ ImageScore(devices[2]) > ImageScore(devices[1])
    /\ physicalDevice = 1
    /\ Len(graphicsQueue) = 1
    /\ graphicsQueue[1].queueFamilyIndex = 1

====
